---- MODULE Spec2Model ----
(***************************************************************************)
(* Model of decklyst's deck page glue and save dialog:                     *)
(*   src/src/pages/decks/[code].tsx  (two page variants, lines 1-95 and    *)
(*                                    97-295)                              *)
(*   src/src/components/Deckbuilder/SaveDeckDialog.tsx                     *)
(* Strings are sequences of one-character strings, so that length,         *)
(* URI-encoding and lower-casing are computed and not assumed.             *)
(***************************************************************************)
EXTENDS Integers, Sequences, FiniteSets, TLC

VARIABLES
  decklysts,      \* the rows of prisma.decklyst, in findMany order
  staticPaths,    \* what the last getStaticPaths call returned
  staticProps,    \* what the last getStaticProps call returned
  ssr,            \* the last getServerSideProps request and its answer
  viewCalls,      \* registerView calls made so far
  page,           \* the props of the static deck page: code and decklyst
  dq,             \* the page's decklyst.get query: status, failures, errors, data
  isSnapshot,     \* the isSnapshot prop of the server-rendered deck page
  imageDataUri,   \* useState<string | null>(null)
  imgQuery,       \* the 'deck-image' query: status, failureCount, retryDelay
  regen,          \* handleRegenerateClick handlers in flight, by what they await
  open,           \* SaveDeckDialog's open prop
  baseDeck,       \* SaveDeckDialog's baseDeck prop
  deck,           \* useDeck(): the deck being built
  archetype,      \* useState<Archetype | null>
  privacy,        \* useState<Privacy>
  isSaving,       \* isLoading of the deck.upsert mutation
  saves,          \* save handlers: calls made, in flight, finished
  lastUpsert      \* the arguments of the latest deck.upsert call

staticVars == <<decklysts, staticPaths, staticProps>>
ssrVars == <<ssr, viewCalls>>
queryVars == <<page, dq>>
imageVars == <<isSnapshot, imageDataUri, imgQuery, regen>>
dialogVars == <<open, baseDeck, deck, archetype, privacy, isSaving, saves, lastUpsert>>

vars == <<staticVars, ssrVars, queryVars, imageVars, dialogVars>>

\* ------------------------------------------------------------------ bounds
MaxDecklysts == 2
MaxPropsRows == 1
MaxViews == 2
MaxImgFailures == 7
MaxRegen == 2
MaxSaves == 2
MaxDismissals == 1

\* ------------------------------------------------------------ strings
Rep(c, n) == [i \in 1..n |-> c]

\* the concatenation of ss[lo..hi], halving so that long strings stay shallow
RECURSIVE ConcatRange(_, _, _)
ConcatRange(ss, lo, hi) ==
  IF lo > hi THEN <<>>
  ELSE IF lo = hi THEN ss[lo]
  ELSE LET mid == (lo + hi) \div 2
       IN ConcatRange(ss, lo, mid) \o ConcatRange(ss, mid + 1, hi)

Concat(ss) == ConcatRange(ss, 1, Len(ss))

\* encodeURIComponent: unreserved characters pass, the others become %XX
EncodeChar(c) ==
  CASE c = "[" -> <<"%", "5", "B">>
    [] c = "]" -> <<"%", "5", "D">>
    [] c = "=" -> <<"%", "3", "D">>
    [] OTHER -> <<c>>

encodeURIComponent(code) == Concat([i \in 1..Len(code) |-> EncodeChar(code[i])])

LowerChar(c) ==
  CASE c = "A" -> "a"
    [] c = "B" -> "b"
    [] c = "D" -> "d"
    [] c = "S" -> "s"
    [] OTHER -> c

toLowerCase(s) == [i \in 1..Len(s) |-> LowerChar(s[i])]

DecksPrefix == <<"/", "d", "e", "c", "k", "s", "/">>

\* `/decks/${encodeURIComponent(code)}`
PathOf(code) == DecksPrefix \o encodeURIComponent(code)

\* ------------------------------------------------------------ the store
Privacy == {"private", "unlisted", "public"}

MaxPathLen == 205

DeckcodePool ==
  { <<"a", "B">>, <<"A", "b">>,
    Rep("x", MaxPathLen - 7), Rep("x", MaxPathLen - 6), Rep("x", MaxPathLen + 1) }

SharecodePool == { <<"a", "b">>, <<"[", "S", "]">> }

DecklystPool == [deckcode : DeckcodePool, sharecode : SharecodePool, privacy : Privacy]

SeqsUpTo(S, n) == UNION {[1..k -> S] : k \in 0..n}

\* ------------------------------------------------------- getStaticPaths
\* prisma.decklyst.findMany({ where: { privacy: { not: 'private' } } })
findManyAll(rows) == rows

findMany(rows) == SelectSeq(rows, LAMBDA r : r.privacy # "private")

\* .flatMap(({ deckcode, sharecode }) => [deckcode, sharecode])
flatMapCodes(rows) == Concat([i \in 1..Len(rows) |-> <<rows[i].deckcode, rows[i].sharecode>>])

\* .filter((code) => code?.length > 0 && code.length <= 205), applied to the paths
lengthFilter(ps) == SelectSeq(ps, LAMBDA p : Len(p) > 0 /\ Len(p) <= MaxPathLen)

\* lodash uniqBy(array, (code) => code.toLowerCase()): the first of each key is kept
uniqBy(ps) ==
  LET keep(i) == \A j \in 1..(i - 1) : toLowerCase(ps[j]) # toLowerCase(ps[i])
      idx == {i \in 1..Len(ps) : keep(i)}
      RECURSIVE pick(_)
      pick(i) == IF i > Len(ps) THEN <<>>
                 ELSE IF i \in idx THEN <<ps[i]>> \o pick(i + 1) ELSE pick(i + 1)
  IN pick(1)

mapPaths(codes) == [i \in 1..Len(codes) |-> PathOf(codes[i])]

getStaticPathsResult(rows) == uniqBy(lengthFilter(mapPaths(flatMapCodes(findMany(rows)))))

GetStaticPaths ==
  /\ staticPaths' = [done |-> TRUE, paths |-> getStaticPathsResult(decklysts),
                     fallback |-> "blocking"]
  /\ UNCHANGED <<decklysts, staticProps, ssrVars, queryVars, imageVars, dialogVars>>

PathsInit ==
  /\ decklysts \in SeqsUpTo(DecklystPool, MaxDecklysts)
  /\ staticPaths = [done |-> FALSE, paths |-> <<>>, fallback |-> "blocking"]

PathsIdle ==
  /\ decklysts = <<>>
  /\ staticPaths = [done |-> FALSE, paths |-> <<>>, fallback |-> "blocking"]

\* -------------------------------------------------------- getStaticProps
\* an optional value: <<>> for null/undefined, <<x>> for x
None == <<>>
Some(x) == <<x>>

\* ctx.params?.code: missing, empty, or one of the codes
ParamPool == {None, Some(<<>>)} \cup {Some(c) : c \in DeckcodePool \cup SharecodePool}

\* decklyst.get resolves a code to a stored row by deckcode or sharecode, or to null
decklystGet(rows, code) ==
  LET hits == {i \in 1..Len(rows) : rows[i].deckcode = code \/ rows[i].sharecode = code}
  IN IF hits = {} THEN {None} ELSE {Some(rows[i]) : i \in hits}

\* const isPrivate = decklyst?.privacy === 'private'
isPrivateNever(decklyst) == FALSE

isPrivate(decklyst) == decklyst # None /\ decklyst[1].privacy = "private"

\* ssg.dehydrate({ shouldDehydrateQuery: () => !isPrivate }) over the ssg client's
\* cache, which holds the decklyst.get query just fetched
dehydrate(cache, private) == {q \in cache : ~private}

getStaticPropsResult(param, decklyst) ==
  IF param = None \/ param = Some(<<>>)
  THEN [done |-> TRUE, notFound |-> TRUE, revalidate |-> FALSE, fetched |-> None,
        code |-> param, trpcState |-> {}, decklyst |-> None]
  ELSE IF decklyst # None
  THEN [done |-> TRUE, notFound |-> FALSE, revalidate |-> FALSE, fetched |-> decklyst,
        code |-> param,
        trpcState |-> dehydrate({[key |-> param[1], data |-> decklyst[1]]},
                                isPrivate(decklyst)),
        decklyst |-> IF isPrivate(decklyst) THEN None ELSE decklyst]
  ELSE [done |-> TRUE, notFound |-> TRUE, revalidate |-> TRUE, fetched |-> None,
        code |-> param, trpcState |-> {}, decklyst |-> None]

GetStaticProps ==
  \E param \in ParamPool :
    \E decklyst \in (IF param = None THEN {None} ELSE decklystGet(decklysts, param[1])) :
      /\ staticProps' = getStaticPropsResult(param, decklyst)
      /\ UNCHANGED <<decklysts, staticPaths, ssrVars, queryVars, imageVars, dialogVars>>

PropsBlank ==
  [done |-> FALSE, notFound |-> FALSE, revalidate |-> FALSE, fetched |-> None,
   code |-> None, trpcState |-> {}, decklyst |-> None]

PropsInit ==
  /\ decklysts \in SeqsUpTo(DecklystPool, MaxPropsRows)
  /\ staticPaths = [done |-> FALSE, paths |-> <<>>, fallback |-> "blocking"]
  /\ staticProps = PropsBlank

PropsIdle == staticProps = PropsBlank

\* ---------------------------------------------------- getServerSideProps
Digits == {"0", "1", "2", "3", "4", "5", "6", "7", "8", "9"}

DigitValue(c) ==
  CASE c = "0" -> 0 [] c = "1" -> 1 [] c = "2" -> 2 [] c = "3" -> 3 [] c = "4" -> 4
    [] c = "5" -> 5 [] c = "6" -> 6 [] c = "7" -> 7 [] c = "8" -> 8 [] c = "9" -> 9

NaN == -1

\* unary plus on a string: a run of digits is its decimal value, '' is 0, the rest NaN
RECURSIVE ToNumberFrom(_, _)
ToNumberFrom(str, acc) ==
  IF str = <<>> THEN acc
  ELSE IF Head(str) \notin Digits THEN NaN
  ELSE ToNumberFrom(Tail(str), 10 * acc + DigitValue(Head(str)))

ToNumber(str) == ToNumberFrom(str, 0)

\* +((query.snapshot as string | undefined) ?? '0') === 1
isSnapshotQuery(raw) == ToNumber(IF raw = None THEN <<"0">> ELSE raw[1]) = 1

\* query.snapshot as the request carries it
SnapshotPool ==
  {None, Some(<<"0">>), Some(<<"1">>), Some(<<"2">>), Some(<<"0", "1">>),
   Some(<<"1", "0">>), Some(<<"t">>), Some(<<>>)}

\* deckcodes and sharecodes a request can name or the store can resolve to
SsrDeckcodes == {"dcFull", "dcEmpty", "dcBroken"}
SsrSharecodes == {"shareA"}
SsrCodePool == {None, Some("")} \cup {Some(c) : c \in SsrDeckcodes \cup SsrSharecodes}

\* what getDeckinfo / ensureDeckinfo answer: null, a stored deck, or a failure
DeckinfoPool ==
  {None} \cup {Some([deckcode |-> d, sharecode |-> sc]) :
                 d \in SsrDeckcodes, sc \in {None} \cup {Some(x) : x \in SsrSharecodes}}

\* validateDeckcode: which deckcodes are well-formed
validateDeckcode(deckcode) == deckcode # None /\ deckcode[1] \in {"dcFull", "dcEmpty"}

\* createDeck(deckcode).cards.length
createDeckCards(deckcode) == IF deckcode = Some("dcFull") THEN 3 ELSE 0

\* if (!snapshot) await client.mutation('registerView', ...)
shouldRegisterViewAlways(snapshot) == TRUE

shouldRegisterView(snapshot) == ~snapshot

SsrBlank ==
  [done |-> FALSE, code |-> None, snapshotRaw |-> None, infoCall |-> "none",
   infoThrew |-> FALSE, deckcode |-> None, sharecode |-> None, answer |-> "none",
   registerCalls |-> 0, isSnapshot |-> FALSE]

\* one request, from the query to the answer; infoOk / registerOk say whether the
\* remote calls succeed
GetServerSideProps ==
  \E code \in SsrCodePool, raw \in SnapshotPool, info \in DeckinfoPool,
     infoOk \in BOOLEAN, registerOk \in BOOLEAN :
    LET snapshot == isSnapshotQuery(raw)
        hasCode == code # None /\ code # Some("")
        infoCall == IF ~hasCode THEN "none"
                    ELSE IF snapshot THEN "getDeckinfo" ELSE "ensureDeckinfo"
        deckinfo == IF hasCode THEN info ELSE None
        deckcode == IF deckinfo # None THEN Some(deckinfo[1].deckcode) ELSE code
        sharecode == IF deckinfo # None THEN deckinfo[1].sharecode ELSE None
        threw == hasCode /\ ~infoOk
        valid == validateDeckcode(deckcode)
        cards == createDeckCards(deckcode)
        registers == ~threw /\ valid /\ cards # 0 /\ shouldRegisterView(snapshot)
        answer == IF threw THEN "error"
                  ELSE IF ~valid THEN "notFound"
                  ELSE IF cards = 0 THEN "notFound"
                  ELSE IF registers /\ ~registerOk THEN "error"
                  ELSE "props"
    IN /\ (hasCode \/ (info = None /\ infoOk))
       /\ (registers \/ registerOk)
       /\ viewCalls + (IF registers THEN 1 ELSE 0) <= MaxViews
       /\ ssr' = [done |-> TRUE, code |-> code, snapshotRaw |-> raw, infoCall |-> infoCall,
                  infoThrew |-> threw,
                  deckcode |-> IF threw THEN None ELSE deckcode,
                  sharecode |-> IF threw THEN None ELSE sharecode,
                  answer |-> answer,
                  registerCalls |-> IF registers THEN 1 ELSE 0,
                  isSnapshot |-> snapshot]
       /\ viewCalls' = viewCalls + (IF registers THEN 1 ELSE 0)
       /\ UNCHANGED <<staticVars, queryVars, imageVars, dialogVars>>

SsrInit == ssr = SsrBlank /\ viewCalls = 0

\* ------------------------------------------- DeckPage: decklyst.get query
ErrorCodes == {"UNAUTHORIZED", "NOT_FOUND", "INTERNAL_SERVER_ERROR"}

PageDecklysts == {"deckOne", "deckTwo"}
PageCodes == {"codeOne", "codeTwo"}

\* retry: (count, error) => (error.data?.code === 'UNAUTHORIZED' ? false : count < 3)
retryIgnoringCode(count, code) == count < 3

retry(count, code) == IF code = "UNAUTHORIZED" THEN FALSE ELSE count < 3

QueryBlank == [status |-> "idle", failureCount |-> 0, errors |-> <<>>, fetches |-> 0,
               data |-> None, error |-> None]

\* the props getStaticProps hands over; initialData: decklyst
QueryInit ==
  /\ page \in [code : PageCodes, decklyst : {None} \cup {Some(d) : d \in PageDecklysts}]
  /\ dq = [QueryBlank EXCEPT !.data = page.decklyst]

QueryIdle ==
  /\ page = [code |-> "codeOne", decklyst |-> None]
  /\ dq = QueryBlank

\* useQuery on mount: the first fetch of { code }
QueryMount ==
  /\ dq.status = "idle"
  /\ dq' = [dq EXCEPT !.status = "fetching", !.fetches = 1]
  /\ UNCHANGED <<page, staticVars, ssrVars, imageVars, dialogVars>>

QueryFetchSucceed ==
  \E d \in PageDecklysts :
    /\ dq.status = "fetching"
    /\ dq' = [dq EXCEPT !.status = "success", !.data = Some(d), !.error = None]
    /\ UNCHANGED <<page, staticVars, ssrVars, imageVars, dialogVars>>

\* a failed fetch: the retry option decides between another attempt and the error
QueryFetchFail ==
  \E code \in ErrorCodes :
    /\ dq.status = "fetching"
    /\ dq' = IF retry(dq.failureCount, code)
             THEN [dq EXCEPT !.status = "retryWait",
                             !.failureCount = dq.failureCount + 1,
                             !.errors = Append(dq.errors, code)]
             ELSE [dq EXCEPT !.status = "error",
                             !.errors = Append(dq.errors, code),
                             !.error = Some(code)]
    /\ UNCHANGED <<page, staticVars, ssrVars, imageVars, dialogVars>>

\* the retry delay has passed: the query function runs again
QueryRetry ==
  /\ dq.status = "retryWait"
  /\ dq' = [dq EXCEPT !.status = "fetching", !.fetches = dq.fetches + 1]
  /\ UNCHANGED <<page, staticVars, ssrVars, imageVars, dialogVars>>

\* ------------------------------------------- DeckPage: the deck image
Images == {"imageA", "imageB"}

RECURSIVE Pow2(_)
Pow2(n) == IF n <= 0 THEN 1 ELSE 2 * Pow2(n - 1)

Max(a, b) == IF a >= b THEN a ELSE b
Min(a, b) == IF a <= b THEN a ELSE b

\* retryDelay: (retryCount) => 1000 * Math.pow(2, Math.max(0, retryCount - 5))
retryDelay(retryCount) == 1000 * Pow2(Max(0, retryCount - 5))

\* retry: true
retryThreeTimes(failureCount) == failureCount < 3

retryDeckImage(failureCount) == TRUE

\* disabled={!imageDataUri} on the Regenerate button
regenerateNeverDisabled == FALSE

regenerateDisabled == imageDataUri = None

\* disabled={!imageDataUri} on the Download button
downloadDisabled == imageDataUri = None

\* deck.deckcode, the second part of the query key
ImageDeckcodes == {"deckcodeA", "deckcodeB"}

ImgQueryBlank == [key |-> "deckcodeA", status |-> "idle", failureCount |-> 0,
                  retryDelay |-> 0, data |-> None]

ImageInit ==
  /\ isSnapshot \in BOOLEAN
  /\ imageDataUri = None
  /\ imgQuery \in {[ImgQueryBlank EXCEPT !.key = k] : k \in ImageDeckcodes}
  /\ regen = [ensuring |-> 0, refetching |-> 0]

ImageIdle ==
  /\ isSnapshot = FALSE
  /\ imageDataUri = None
  /\ imgQuery = ImgQueryBlank
  /\ regen = [ensuring |-> 0, refetching |-> 0]

\* useQuery(['deck-image', deckcode], ...) with enabled: !isSnapshot: the first fetch
ImgMount ==
  /\ imgQuery.status = "idle"
  /\ ~isSnapshot
  /\ imgQuery' = [imgQuery EXCEPT !.status = "fetching"]
  /\ UNCHANGED <<isSnapshot, imageDataUri, regen, staticVars, ssrVars, queryVars, dialogVars>>

\* ensureDeckimage({ deckcode }) resolves: onSuccess sets imageDataUri, and a
\* handler awaiting refetchDeckimage() returns
ImgFetchSucceed ==
  \E image \in Images :
    /\ imgQuery.status = "fetching"
    /\ imgQuery' = [imgQuery EXCEPT !.status = "success", !.failureCount = 0,
                                    !.data = Some(image)]
    /\ imageDataUri' = Some(image)
    /\ regen' = [regen EXCEPT !.refetching = 0]
    /\ UNCHANGED <<isSnapshot, staticVars, ssrVars, queryVars, dialogVars>>

\* ensureDeckimage({ deckcode }) rejects: retry decides, retryDelay sets the wait.
\* failureCount is kept at MaxImgFailures once it gets there.
ImgFetchFail ==
  /\ imgQuery.status = "fetching"
  /\ imgQuery' = IF retryDeckImage(imgQuery.failureCount)
                 THEN [imgQuery EXCEPT
                         !.status = "retryWait",
                         !.failureCount = Min(imgQuery.failureCount + 1, MaxImgFailures),
                         !.retryDelay = retryDelay(imgQuery.failureCount)]
                 ELSE [imgQuery EXCEPT !.status = "error"]
  /\ regen' = IF retryDeckImage(imgQuery.failureCount) THEN regen
              ELSE [regen EXCEPT !.refetching = 0]
  /\ UNCHANGED <<isSnapshot, imageDataUri, staticVars, ssrVars, queryVars, dialogVars>>

\* the retry delay has passed
ImgRetry ==
  /\ imgQuery.status = "retryWait"
  /\ imgQuery' = [imgQuery EXCEPT !.status = "fetching"]
  /\ UNCHANGED <<isSnapshot, imageDataUri, regen, staticVars, ssrVars, queryVars, dialogVars>>

\* handleRegenerateClick up to its await: setImageDataUri(null), then
\* ensureDeckimage({ deckcode, forceRender: true }) is in flight
RegenerateClick ==
  /\ ~regenerateDisabled
  /\ regen.ensuring + regen.refetching < MaxRegen
  /\ imageDataUri' = None
  /\ regen' = [regen EXCEPT !.ensuring = regen.ensuring + 1]
  /\ UNCHANGED <<isSnapshot, imgQuery, staticVars, ssrVars, queryVars, dialogVars>>

\* the forced ensureDeckimage resolves: setImageDataUri(getImageDataUri(image))
RegenSucceed ==
  \E image \in Images :
    /\ regen.ensuring > 0
    /\ regen' = [regen EXCEPT !.ensuring = regen.ensuring - 1]
    /\ imageDataUri' = Some(image)
    /\ UNCHANGED <<isSnapshot, imgQuery, staticVars, ssrVars, queryVars, dialogVars>>

\* the forced ensureDeckimage rejects: catch, await refetchDeckimage(); a query
\* already fetching is joined, otherwise a new fetch starts
RegenFail ==
  /\ regen.ensuring > 0
  /\ regen' = [ensuring |-> regen.ensuring - 1, refetching |-> regen.refetching + 1]
  /\ imgQuery' = IF imgQuery.status \in {"fetching", "retryWait"} THEN imgQuery
                 ELSE [imgQuery EXCEPT !.status = "fetching", !.failureCount = 0]
  /\ UNCHANGED <<isSnapshot, imageDataUri, staticVars, ssrVars, queryVars, dialogVars>>

NextImage ==
  \/ ImgMount \/ ImgFetchSucceed \/ ImgFetchFail \/ ImgRetry
  \/ RegenerateClick \/ RegenSucceed \/ RegenFail

\* every remote call settles and every timer fires
ImageFairness ==
  /\ WF_vars(ImgMount)
  /\ WF_vars(ImgFetchSucceed \/ ImgFetchFail)
  /\ WF_vars(ImgRetry)
  /\ WF_vars(RegenSucceed \/ RegenFail)

\* ------------------------------------------------------- SaveDeckDialog
Archetype == {"aggro", "control"}

Sharecodes == {"shareA", "shareB"}

DialogDeckcodes == {"deckcodeA", "deckcodeB"}

\* baseDeck?.meta: archetype, privacy and sharecode may each be missing
BaseDeckPool ==
  {None,
   Some([archetype |-> None, privacy |-> None, sharecode |-> None]),
   Some([archetype |-> Some("aggro"), privacy |-> Some("private"), sharecode |-> Some("shareA")]),
   Some([archetype |-> None, privacy |-> Some("public"), sharecode |-> Some("shareB")])}

\* baseDeck?.meta?.archetype ?? null
baseArchetype == IF baseDeck = None THEN None ELSE baseDeck[1].archetype

\* baseDeck?.meta?.privacy ?? 'unlisted'
basePrivacy ==
  IF baseDeck = None \/ baseDeck[1].privacy = None THEN "unlisted" ELSE baseDeck[1].privacy[1]

\* baseDeck?.meta?.sharecode
baseSharecode == IF baseDeck = None THEN None ELSE baseDeck[1].sharecode

\* the <option> values of the archetype select: '' for None, then the enumeration
ArchetypeOptions == {""} \cup Archetype

\* onChange={(ev) => setArchetype(ev.target.value as Archetype)}
selectedArchetype(value) == Some(value)

\* sharecode: update ? baseDeck?.meta?.sharecode : undefined
upsertSharecodeAlwaysBase(update) == baseSharecode

upsertSharecode(update) == IF update THEN baseSharecode ELSE None

\* disabled={isSaving} on the save buttons
saveDisabled == isSaving

\* if (isSaving) return, in handleClose
closeBlocked == isSaving

SavesBlank ==
  [started |-> 0, upserting |-> 0, upsertOk |-> 0, upsertFailed |-> 0,
   pushing |-> <<>>, pushStarted |-> 0, navigated |-> 0, returned |-> None,
   lastPush |-> None, handlerCloses |-> 0, dismissCloses |-> 0]

DialogInit ==
  /\ open = FALSE
  /\ baseDeck \in BaseDeckPool
  /\ deck \in DialogDeckcodes
  /\ archetype = baseArchetype
  /\ privacy = basePrivacy
  /\ isSaving = FALSE
  /\ saves = SavesBlank
  /\ lastUpsert = None

DialogIdle ==
  /\ open = FALSE
  /\ baseDeck = None
  /\ deck = "deckcodeA"
  /\ archetype = None
  /\ privacy = "unlisted"
  /\ isSaving = FALSE
  /\ saves = SavesBlank
  /\ lastUpsert = None

\* the parent shows the dialog: the effect on [.., open] resets both selections
OpenDialog ==
  /\ ~open
  /\ open' = TRUE
  /\ archetype' = baseArchetype
  /\ privacy' = basePrivacy
  /\ UNCHANGED <<baseDeck, deck, isSaving, saves, lastUpsert,
                 staticVars, ssrVars, queryVars, imageVars>>

\* DeckTitleInput edits the title, which is part of deck.deckcode
EditTitle ==
  \E d \in DialogDeckcodes :
    /\ open
    /\ d # deck
    /\ deck' = d
    /\ UNCHANGED <<open, baseDeck, archetype, privacy, isSaving, saves, lastUpsert,
                   staticVars, ssrVars, queryVars, imageVars>>

\* <RadioGroup value={privacy} onChange={setPrivacy}>
SelectPrivacy ==
  \E value \in Privacy :
    /\ open
    /\ privacy' = value
    /\ UNCHANGED <<open, baseDeck, deck, archetype, isSaving, saves, lastUpsert,
                   staticVars, ssrVars, queryVars, imageVars>>

\* the archetype <select>: onChange fires for an option other than the one shown
SelectArchetype ==
  \E value \in ArchetypeOptions :
    /\ open
    /\ value # (IF archetype = None THEN "" ELSE archetype[1])
    /\ archetype' = selectedArchetype(value)
    /\ UNCHANGED <<open, baseDeck, deck, privacy, isSaving, saves, lastUpsert,
                   staticVars, ssrVars, queryVars, imageVars>>

\* a click on 'Save deck' / 'Save as new' (update = FALSE) or 'Update deck'
\* (update = TRUE): createSaveHandler(update)() up to its first await
ClickSave ==
  \E update \in BOOLEAN :
    /\ open
    /\ ~saveDisabled
    /\ update => baseSharecode # None
    /\ saves.started < MaxSaves
    /\ lastUpsert' = Some([sharecode |-> upsertSharecode(update), deckcode |-> deck,
                           archetype |-> archetype, privacy |-> privacy,
                           button |-> IF update THEN "Update deck"
                                      ELSE IF baseSharecode # None THEN "Save as new"
                                      ELSE "Save deck"])
    /\ isSaving' = TRUE
    /\ saves' = [saves EXCEPT !.started = saves.started + 1,
                              !.upserting = saves.upserting + 1]
    /\ UNCHANGED <<open, baseDeck, deck, archetype, privacy,
                   staticVars, ssrVars, queryVars, imageVars>>

\* deck.upsert resolves: router.push({ pathname: '/decks/[code]', query: { code:
\* updated.meta.sharecode } }) starts
UpsertSucceed ==
  \E sc \in Sharecodes :
    /\ saves.upserting > 0
    /\ isSaving' = FALSE
    /\ saves' = [saves EXCEPT !.upserting = saves.upserting - 1,
                              !.upsertOk = saves.upsertOk + 1,
                              !.returned = Some(sc),
                              !.pushing = Append(saves.pushing, sc),
                              !.pushStarted = saves.pushStarted + 1,
                              !.lastPush = Some(sc)]
    /\ UNCHANGED <<open, baseDeck, deck, archetype, privacy, lastUpsert,
                   staticVars, ssrVars, queryVars, imageVars>>

\* deck.upsert rejects: the handler ends with the error
UpsertFail ==
  /\ saves.upserting > 0
  /\ isSaving' = FALSE
  /\ saves' = [saves EXCEPT !.upserting = saves.upserting - 1,
                            !.upsertFailed = saves.upsertFailed + 1]
  /\ UNCHANGED <<open, baseDeck, deck, archetype, privacy, lastUpsert,
                 staticVars, ssrVars, queryVars, imageVars>>

\* router.push resolves: onClose()
PushResolve ==
  /\ saves.pushing # <<>>
  /\ saves' = [saves EXCEPT !.pushing = Tail(saves.pushing),
                            !.navigated = saves.navigated + 1,
                            !.handlerCloses = saves.handlerCloses + 1]
  /\ open' = FALSE
  /\ UNCHANGED <<baseDeck, deck, archetype, privacy, isSaving, lastUpsert,
                 staticVars, ssrVars, queryVars, imageVars>>

\* <Dialog onClose={handleClose}>: Escape or a click outside the panel
HandleClose ==
  /\ open
  /\ saves.dismissCloses < MaxDismissals
  /\ IF closeBlocked
     THEN UNCHANGED <<open, saves>>
     ELSE /\ open' = FALSE
          /\ saves' = [saves EXCEPT !.dismissCloses = saves.dismissCloses + 1]
  /\ UNCHANGED <<baseDeck, deck, archetype, privacy, isSaving, lastUpsert,
                 staticVars, ssrVars, queryVars, imageVars>>

NextDialog ==
  \/ OpenDialog \/ EditTitle \/ SelectPrivacy \/ SelectArchetype
  \/ ClickSave \/ UpsertSucceed \/ UpsertFail \/ PushResolve \/ HandleClose

Init == PathsInit /\ PropsIdle /\ SsrInit /\ QueryInit /\ ImageInit /\ DialogInit

InitPaths == PathsInit /\ PropsIdle /\ SsrInit /\ QueryIdle /\ ImageIdle /\ DialogIdle

InitProps == PropsInit /\ SsrInit /\ QueryIdle /\ ImageIdle /\ DialogIdle

InitSsr == PathsIdle /\ PropsIdle /\ SsrInit /\ QueryIdle /\ ImageIdle /\ DialogIdle

InitQuery == PathsIdle /\ PropsIdle /\ SsrInit /\ QueryInit /\ ImageIdle /\ DialogIdle

InitImage == PathsIdle /\ PropsIdle /\ SsrInit /\ QueryIdle /\ ImageInit /\ DialogIdle

InitDialog == PathsIdle /\ PropsIdle /\ SsrInit /\ QueryIdle /\ ImageIdle /\ DialogInit

NextPaths == GetStaticPaths

NextProps == GetStaticProps

NextSsr == GetServerSideProps

NextQuery == QueryMount \/ QueryFetchSucceed \/ QueryFetchFail \/ QueryRetry

Next == NextPaths \/ NextProps \/ NextSsr \/ NextQuery \/ NextImage \/ NextDialog

Spec == Init /\ [][Next]_vars

SpecPaths == InitPaths /\ [][NextPaths]_vars

SpecProps == InitProps /\ [][NextProps]_vars

SpecSsr == InitSsr /\ [][NextSsr]_vars

SpecQuery == InitQuery /\ [][NextQuery]_vars

SpecImage == InitImage /\ [][NextImage]_vars

SpecDialog == InitDialog /\ [][NextDialog]_vars

\* every call settles one way or the other; nothing says a call ever succeeds
FairSpecImage == SpecImage /\ ImageFairness

\* as FairSpecImage, and ensureDeckimage does not fail for ever
LiveSpecImage == SpecImage /\ ImageFairness /\ SF_vars(ImgFetchSucceed)

\* ------------------------------------------------------------ C1
\* C1: getStaticProps never hands a private record to the client: when the record
\* decklyst.get returned is private, the decklyst prop is null and no query is
\* dehydrated; when it is not private, the prop is that record and its query is
\* dehydrated.
C1_PrivateNeverHydrated ==
  (staticProps.done /\ staticProps.fetched # None) =>
    LET d == staticProps.fetched[1] IN
    /\ ~staticProps.notFound
    /\ d.privacy = "private" =>
         staticProps.decklyst = None /\ staticProps.trpcState = {}
    /\ d.privacy # "private" =>
         /\ staticProps.decklyst = Some(d)
         /\ \E q \in staticProps.trpcState : q.data = d

C1_Witness ==
  /\ staticProps.done
  /\ staticProps.fetched # None
  /\ staticProps.fetched[1].privacy = "private"
  /\ staticProps.decklyst = None

\* ------------------------------------------------------------ C2
\* the codes findMany's rows contribute, by position in the flat-mapped list
CodeAt(pos) ==
  LET row == decklysts[(pos + 1) \div 2]
  IN IF pos % 2 = 1 THEN row.deckcode ELSE row.sharecode

PublicPositions == {pos \in 1..(2 * Len(decklysts)) : decklysts[(pos + 1) \div 2].privacy # "private"}

SetMin(S) == CHOOSE x \in S : \A y \in S : x <= y

\* C2: the returned paths are pairwise different when lower-cased, each is built
\* from a code of a non-private row, and of the codes that agree when lower-cased
\* the first one is the one kept.
C2_PathsDedupAndPublic ==
  staticPaths.done =>
    LET ps == staticPaths.paths IN
    /\ \A i, j \in 1..Len(ps) : i < j => toLowerCase(ps[i]) # toLowerCase(ps[j])
    /\ \A i \in 1..Len(ps) :
         LET same == {pos \in PublicPositions :
                        toLowerCase(PathOf(CodeAt(pos))) = toLowerCase(ps[i])}
         IN /\ same # {}
            /\ ps[i] = PathOf(CodeAt(SetMin(same)))

C2_Witness ==
  /\ staticPaths.done
  /\ Len(staticPaths.paths) > 0
  /\ \E k \in 1..Len(decklysts) : decklysts[k].privacy = "private"
  /\ \E p, q \in PublicPositions :
       /\ p < q
       /\ PathOf(CodeAt(p)) # PathOf(CodeAt(q))
       /\ toLowerCase(PathOf(CodeAt(p))) = toLowerCase(PathOf(CodeAt(q)))

\* ------------------------------------------------------------ C3
\* C3: route enumeration enforces the length constraint on codes: no returned path
\* is built from an empty code or from one longer than 205 characters, and no code
\* of 1 to 205 characters is left out because of its length.
C3_LengthEnforcedOnCodes ==
  staticPaths.done =>
    LET ps == staticPaths.paths IN
    /\ \A i \in 1..Len(ps) : \A pos \in PublicPositions :
         PathOf(CodeAt(pos)) = ps[i] =>
           Len(CodeAt(pos)) > 0 /\ Len(CodeAt(pos)) <= MaxPathLen
    /\ \A pos \in PublicPositions :
         (Len(CodeAt(pos)) > 0 /\ Len(CodeAt(pos)) <= MaxPathLen) =>
           \E i \in 1..Len(ps) : toLowerCase(ps[i]) = toLowerCase(PathOf(CodeAt(pos)))

\* ------------------------------------------------------------ C4
\* C4: registerView is called exactly once for a request that is not a snapshot and
\* whose resolved deckcode validates and decodes to at least one card; never for a
\* snapshot request (snapshot = 1); never for a request answered not-found, which is
\* the answer whenever the resolved deckcode fails validation or decodes to no card.
C4_ViewRegistrationGated ==
  (ssr.done /\ ~ssr.infoThrew) =>
    LET good == validateDeckcode(ssr.deckcode) /\ createDeckCards(ssr.deckcode) > 0 IN
    /\ (~ssr.isSnapshot /\ good) => ssr.registerCalls = 1
    /\ ssr.snapshotRaw = Some(<<"1">>) => (ssr.isSnapshot /\ ssr.registerCalls = 0)
    /\ ssr.snapshotRaw \in {None, Some(<<"0">>)} => ~ssr.isSnapshot
    /\ ssr.isSnapshot => ssr.registerCalls = 0
    /\ ssr.answer = "notFound" => ssr.registerCalls = 0
    /\ ~good <=> ssr.answer = "notFound"

C4_Witness ==
  /\ ssr.done
  /\ ssr.snapshotRaw = None
  /\ ssr.deckcode = Some("dcFull")
  /\ ssr.code = Some("shareA")
  /\ ssr.registerCalls = 1
  /\ ssr.answer = "props"
  /\ viewCalls = 2

\* ------------------------------------------------------------ C5
\* C5: a failure whose code is UNAUTHORIZED is never retried, whatever the failure
\* count; any other failure is retried until three retries have been made, after
\* which the error is surfaced and the query fetches no more.
C5_RetryPolicy ==
  LET n == Len(dq.errors) IN
  /\ \A i \in 1..n : dq.errors[i] = "UNAUTHORIZED" => (i = n /\ dq.status = "error")
  /\ dq.fetches <= 4
  /\ dq.failureCount <= 3
  /\ dq.status = "error" => /\ dq.error = Some(dq.errors[n])
                            /\ dq.errors[n] # "UNAUTHORIZED" => dq.fetches = 4
                            /\ ~ENABLED NextQuery
  /\ (dq.status \in {"retryWait", "fetching"} /\ n > 0) => dq.errors[n] # "UNAUTHORIZED"

C5_Witness ==
  /\ dq.status = "error"
  /\ dq.errors = <<"NOT_FOUND", "INTERNAL_SERVER_ERROR", "UNAUTHORIZED">>
  /\ dq.fetches = 3

\* ------------------------------------------------------------ C6
\* C6 as stated: the deck-image query stops retrying after a bounded number of
\* attempts: either its fetches succeed again and again, or from some point on the
\* query neither fetches nor waits for a retry.
C6_StopsRetrying ==
  \/ []<>(imgQuery.status = "success")
  \/ <>[](imgQuery.status \notin {"fetching", "retryWait"})

\* C6 as amended: a failed deck-image fetch is always retried (the query never gives
\* up), after 1000 ms for each of the first six retries and twice the previous delay
\* from then on.
C6_BackoffWithoutAttemptCap ==
  /\ imgQuery.status # "error"
  /\ imgQuery.status = "retryWait" =>
       LET n == imgQuery.failureCount
           d == imgQuery.retryDelay
       IN /\ n >= 1
          /\ n <= 6 => d = 1000
          /\ (n > 6 /\ n < MaxImgFailures) => d = 2 * retryDelay(n - 2)
          /\ n = MaxImgFailures => d >= retryDelay(n - 1)

C6_Witness ==
  /\ imgQuery.status = "retryWait"
  /\ imgQuery.failureCount = 7
  /\ imgQuery.retryDelay = 2000

\* ------------------------------------------------------------ C7
\* C7: Regenerate clears imageDataUri and issues the forced ensureDeckimage; if it
\* fails the deck-image query refetches instead of an error being shown; while a
\* regeneration is under way imageDataUri is null, Regenerate and Download are
\* disabled and no second regeneration starts; and, ensureDeckimage not failing for
\* ever, imageDataUri becomes non-null again.
C7_Regenerate ==
  /\ [](regen.ensuring + regen.refetching <= 1)
  /\ [](regen.ensuring + regen.refetching > 0 =>
          imageDataUri = None /\ regenerateDisabled /\ downloadDisabled)
  /\ [](regen.refetching > 0 => imgQuery.status \in {"fetching", "retryWait"})
  /\ [](imgQuery.status # "error")
  /\ ((regen.ensuring + regen.refetching > 0) ~> (imageDataUri # None))

C7_Witness ==
  /\ regen.refetching = 1
  /\ imgQuery.status = "retryWait"
  /\ imgQuery.failureCount = 2
  /\ imageDataUri = None

\* ------------------------------------------------------------ C8
\* C8: 'Save deck' and 'Save as new' call deck.upsert with sharecode undefined,
\* 'Update deck' with the base deck's sharecode, always with the deckcode, archetype
\* and privacy current at the click; a successful upsert is followed by the
\* navigation to the returned sharecode and only after it by onClose; a failed
\* upsert is followed by neither.
C8_SaveSubmitsThenNavigates ==
  /\ [](lastUpsert # None =>
          LET u == lastUpsert[1] IN
          /\ u.button \in {"Save deck", "Save as new"} => u.sharecode = None
          /\ u.button = "Update deck" => (u.sharecode = baseSharecode /\ u.sharecode # None)
          /\ u.button = "Save deck" <=> baseSharecode = None)
  /\ [](/\ saves.pushStarted = saves.upsertOk
        /\ saves.lastPush = saves.returned
        /\ saves.handlerCloses = saves.navigated
        /\ saves.navigated + Len(saves.pushing) = saves.pushStarted)
  /\ [][saves'.started # saves.started =>
          /\ lastUpsert'[1].deckcode = deck
          /\ lastUpsert'[1].archetype = archetype
          /\ lastUpsert'[1].privacy = privacy]_vars
  /\ [][saves'.upsertFailed # saves.upsertFailed =>
          /\ saves'.pushStarted = saves.pushStarted
          /\ saves'.pushing = saves.pushing
          /\ saves'.handlerCloses = saves.handlerCloses
          /\ open' = open]_vars
  /\ [][saves'.handlerCloses # saves.handlerCloses =>
          /\ saves.pushing # <<>>
          /\ saves'.navigated = saves.navigated + 1]_vars

C8_Witness ==
  /\ lastUpsert # None
  /\ lastUpsert[1].button = "Update deck"
  /\ lastUpsert[1].privacy = "public"
  /\ saves.upsertFailed = 1
  /\ saves.handlerCloses = 1
  /\ saves.lastPush = Some("shareB")

\* ------------------------------------------------------------ C9
\* C9: whatever was opened and selected, deck.upsert is called with a privacy of the
\* Privacy enumeration and with an archetype that is null or of the Archetype
\* enumeration.
C9_UpsertArgsInEnumerations ==
  lastUpsert # None =>
    /\ lastUpsert[1].privacy \in Privacy
    /\ lastUpsert[1].archetype \in {None} \cup {Some(a) : a \in Archetype}

\* ------------------------------------------------------------ C10
\* C10: from the click on a save button until that handler calls onClose, that is
\* while its upsert or its navigation is pending, no further deck.upsert is issued
\* and a dismissal does not call onClose.
C10_SaveNotInterleaved ==
  [][(saves.upserting + Len(saves.pushing) > 0) =>
       /\ saves'.started = saves.started
       /\ saves'.dismissCloses = saves.dismissCloses]_vars
====
